---- MODULE Spec2Model ----
(***************************************************************************)
(* Model of the live voice session of src/components/AudioCompanion.tsx:   *)
(* the session life cycle (startSession, the Transport callbacks onopen,   *)
(* onmessage, onclose, onerror, stopSession), the playback scheduler       *)
(* (nextStartTimeRef, sourcesRef), the transcript of the turn and the      *)
(* capture callback.                                                       *)
(*                                                                         *)
(* Time is counted in ticks of 100 ms of an output AudioContext's          *)
(* currentTime.  Playback rates are in tenths (8 = 0.8x, 10 = 1.0x) and    *)
(* the audio left in a buffer is counted in tenths of a tick, so a buffer  *)
(* of d ticks holds 10*d units and a playing source consumes `rate` units  *)
(* per tick.                                                               *)
(*                                                                         *)
(* `await decodeAudioData` is a suspension point of onmessage: the handler *)
(* is split into its arrival step (OnMessage) and its resumption           *)
(* (DecodeDone), and other handlers and the clock may run in between.      *)
(*                                                                         *)
(* Specifications: Spec is the session life cycle; SpecCapture adds the    *)
(* capture callback; SpecMedia adds inbound messages and the capture       *)
(* callback at a frozen clock; SpecPlay is one connected session with      *)
(* time passing; SpecText is one connected session and its transcript      *)
(* messages, with the history store of src/services/cache.ts; SpecCodec    *)
(* is the PCM codec (createBlob, decodeAudioData) applied to one sample;   *)
(* SpecCache is the history store called on its own.                       *)
(***************************************************************************)
EXTENDS Integers, FiniteSets, Sequences, TLC

MaxSessions == 2        \* startSession calls that get as far as acquiring
MaxTime     == 4        \* last tick of any output clock
MaxFrames   == 2        \* inbound messages delivered in total
MaxPending  == 2        \* onmessage handlers suspended in `await decode`
MaxCaptures == 2        \* onaudioprocess callbacks in total
SubSteps    == 4        \* sample values told apart within one 16-bit step
MaxSaves    == 3        \* saveToCache calls of SpecCache
MaxSpan     == 12       \* sample values taken next to -1, 0 and 1

Sessions == 1..MaxSessions
Speeds   == {8, 10}     \* two of the <option> values of the speed select
Durs     == {4}         \* audioBuffer.duration of an inbound frame, in ticks
EndedSlack == 2         \* the 0.2 s of the 'ended' listener

VARIABLES
    \* React state
    status, isActive, speakerState, errorMessage, playbackSpeed, mounted,
    \* refs
    inputContextRef, outputContextRef, streamRef, processorRef,
    sessionPromiseRef, nextStart, sourcesRef,
    \* the objects the refs point to, one of each per startSession call
    cur, startPc, sessionSpeed, ictx, octx, clock, stream, proc, procCtx,
    transport, thenQ,
    \* suspended onmessage handlers, and counters
    pending, frames, captures, sent,
    \* the transcript of the turn, the history store (localStorage) and the
    \* number of saveToCache calls so far
    transcriptRef, history, saves,
    \* the PCM codec: a sample, the blob made of it, the sample decoded
    sample, pcmBlob, decoded, codecPc,
    \* history
    stopAccepted, cancelled, stops, stopLog, lastFlush, handlesAtError,
    lastDropped, heard, turn, act

vars == << status, isActive, speakerState, errorMessage, playbackSpeed, mounted,
           inputContextRef, outputContextRef, streamRef, processorRef,
           sessionPromiseRef, nextStart, sourcesRef,
           cur, startPc, sessionSpeed, ictx, octx, clock, stream, proc, procCtx,
           transport, thenQ, pending, frames, captures, sent,
           transcriptRef, history, saves, sample, pcmBlob, decoded, codecPc,
           stopAccepted, cancelled, stops, stopLog, lastFlush, handlesAtError,
           lastDropped, heard, turn, act >>

reactVars == << status, isActive, speakerState, errorMessage, playbackSpeed, mounted >>
refVars   == << inputContextRef, outputContextRef, streamRef, processorRef, sessionPromiseRef >>
devVars   == << ictx, octx, stream, proc, procCtx >>
histVars  == << stopAccepted, cancelled, stops, stopLog, lastFlush >>
textVars  == << transcriptRef, history, saves, turn >>
codecVars == << sample, pcmBlob, decoded, codecPc >>

EmptyPair == [user |-> << >>, model |-> << >>]
NoTurn    == [tc |-> FALSE, pair |-> EmptyPair]

Max(a, b) == IF a > b THEN a ELSE b
Min(a, b) == IF a < b THEN a ELSE b

SessionInit ==
    /\ status = "disconnected" /\ isActive = FALSE /\ speakerState = "listening"
    /\ errorMessage = "" /\ playbackSpeed = 10 /\ mounted = TRUE
    /\ inputContextRef = 0 /\ outputContextRef = 0 /\ streamRef = 0
    /\ processorRef = 0 /\ sessionPromiseRef = 0
    /\ nextStart = 0 /\ sourcesRef = {}
    /\ cur = 0
    /\ startPc = [i \in Sessions |-> "none"]
    /\ sessionSpeed = [i \in Sessions |-> 10]
    /\ ictx = [i \in Sessions |-> "none"]
    /\ octx = [i \in Sessions |-> "none"]
    /\ clock = [i \in Sessions |-> 0]
    /\ stream = [i \in Sessions |-> "none"]
    /\ proc = [i \in Sessions |-> "none"]
    /\ procCtx = [i \in Sessions |-> 0]
    /\ transport = [i \in Sessions |-> "none"]
    /\ thenQ = [i \in Sessions |-> [sends |-> 0, close |-> FALSE]]
    /\ pending = {} /\ frames = 0 /\ captures = 0 /\ sent = 0
    /\ stopAccepted = FALSE /\ cancelled = {} /\ stops = 0 /\ stopLog = << >>
    /\ lastFlush = [n |-> 0, old |-> 0]
    /\ handlesAtError = "none" /\ lastDropped = 0 /\ heard = {}
    /\ transcriptRef = EmptyPair /\ history = << >> /\ saves = 0
    /\ turn = NoTurn
    /\ act = "init"

Init ==
    /\ SessionInit
    /\ sample = 0 /\ pcmBlob = << >> /\ decoded = 0 /\ codecPc = "idle"

Awaiting == {"awaitMic", "awaitOpen"}

(* sessionPromiseRef.current?.then(session => session.close()).catch(..):   *)
(* on a resolved promise the callback runs at once and closes an open      *)
(* socket; on a pending one it is queued (see QueueClose).                 *)
CloseTransport(tr, j) ==
    IF j # 0 /\ tr[j] = "open" THEN [tr EXCEPT ![j] = "closing"] ELSE tr

(* thenQ[j] is the queue of callbacks on the pending connect promise of j,  *)
(* kept as the number of sends ahead of the first close and whether a      *)
(* close is queued: what is queued behind a close finds the socket closing *)
(* and has no effect.                                                      *)
QueueClose(tr, q, j) ==
    IF j # 0 /\ tr[j] = "handshake" THEN [q EXCEPT ![j].close = TRUE] ELSE q

(* stopSession, entered with the sockets in state tr.                      *)
StopSessionFrom(tr) ==
    /\ proc' = IF processorRef # 0 /\ proc[processorRef] = "wired"
               THEN [proc EXCEPT ![processorRef] = "disconnected"] ELSE proc
    /\ stream' = IF streamRef # 0 /\ stream[streamRef] = "live"
                 THEN [stream EXCEPT ![streamRef] = "stopped"] ELSE stream
    /\ ictx' = IF inputContextRef # 0 /\ ictx[inputContextRef] = "open"
               THEN [ictx EXCEPT ![inputContextRef] = "closed"] ELSE ictx
    /\ sourcesRef' = {}
    /\ octx' = IF outputContextRef # 0 /\ octx[outputContextRef] = "open"
               THEN [octx EXCEPT ![outputContextRef] = "closed"] ELSE octx
    /\ transport' = CloseTransport(tr, sessionPromiseRef)
    /\ thenQ' = QueueClose(tr, thenQ, sessionPromiseRef)
    /\ isActive' = FALSE
    /\ status' = "disconnected"

(* What is open when a catch block or onerror calls setStatus('error'),    *)
(* its first statement, before stopSession runs.                           *)
HandlesNow ==
    IF \E i \in Sessions :
          \/ ictx[i] = "open" \/ octx[i] = "open" \/ stream[i] = "live"
          \/ proc[i] = "wired" \/ transport[i] = "open"
    THEN "open" ELSE "clean"

(* The statements of stopSession, had setStatus come first.                *)
StopStepsStatusFirst ==
    << "setStatus" >>
    \o (IF processorRef # 0 THEN << "processor.disconnect", "inputSource.disconnect" >> ELSE << >>)
    \o (IF streamRef # 0 THEN << "tracks.stop" >> ELSE << >>)
    \o (IF inputContextRef # 0 THEN << "inputContext.close" >> ELSE << >>)
    \o << "sources.stop", "sources.clear" >>
    \o (IF outputContextRef # 0 THEN << "outputContext.close" >> ELSE << >>)
    \o (IF sessionPromiseRef # 0 THEN << "session.close" >> ELSE << >>)
    \o << "setIsActive" >>

(* The statements a stopSession call executes, in program order; the ones  *)
(* behind an `if (ref.current)` or a `?.` only when the ref is set.        *)
(* inputSourceRef is set together with processorRef.                       *)
StopSteps ==
    (IF processorRef # 0 THEN << "processor.disconnect", "inputSource.disconnect" >> ELSE << >>)
    \o (IF streamRef # 0 THEN << "tracks.stop" >> ELSE << >>)
    \o (IF inputContextRef # 0 THEN << "inputContext.close" >> ELSE << >>)
    \o << "sources.stop", "sources.clear" >>
    \o (IF outputContextRef # 0 THEN << "outputContext.close" >> ELSE << >>)
    \o (IF sessionPromiseRef # 0 THEN << "session.close" >> ELSE << >>)
    \o << "setIsActive", "setStatus" >>

(* bookkeeping of every stopSession call; self is the attempt whose own    *)
(* failure makes the call, 0 if none                                       *)
StopHist(self) ==
    /\ stopAccepted' = TRUE
    /\ cancelled' = cancelled \cup {i \in Sessions \ {self} : startPc[i] \in Awaiting}
    /\ stops' = Min(stops + 1, 2)
    /\ stopLog' = StopSteps
    /\ lastFlush' = lastFlush

NoStopHist ==
    /\ stops' = 0 /\ stopLog' = << >>
    /\ UNCHANGED << stopAccepted, cancelled, lastFlush >>

(* startSession up to its first suspension (await getUserMedia), or its    *)
(* catch block when the key is missing or the microphone API is absent.    *)
StartClick(keyOk, micOk) ==
    /\ mounted /\ ~isActive /\ status # "connecting"
    /\ cur < MaxSessions
    /\ IF keyOk /\ micOk
       THEN LET i == cur + 1 IN
            /\ cur' = i
            /\ status' = "connecting"
            /\ errorMessage' = ""
            /\ ictx' = [ictx EXCEPT ![i] = "open"]
            /\ octx' = [octx EXCEPT ![i] = "open"]
            /\ inputContextRef' = i
            /\ outputContextRef' = i
            /\ sessionSpeed' = [sessionSpeed EXCEPT ![i] = playbackSpeed]
            /\ startPc' = [startPc EXCEPT ![i] = "awaitMic"]
            /\ stopAccepted' = FALSE
            /\ stops' = 0 /\ stopLog' = << >>
            /\ UNCHANGED << isActive, speakerState, playbackSpeed, mounted,
                            streamRef, processorRef, sessionPromiseRef,
                            nextStart, sourcesRef, clock, stream, proc, procCtx,
                            transport, thenQ, pending, frames, captures, sent,
                            cancelled, lastFlush >>
            /\ UNCHANGED << handlesAtError, lastDropped, heard, textVars, codecVars >>
            /\ act' = "StartClick"
       ELSE /\ errorMessage' = (IF keyOk THEN "Microphone not supported."
                                         ELSE "API Key is missing.")
            /\ StopSessionFrom(transport)
            /\ StopHist(0)
            /\ UNCHANGED << speakerState, playbackSpeed, mounted, refVars,
                            nextStart, cur, startPc, sessionSpeed, clock, procCtx,
                            pending, frames, captures, sent >>
            /\ handlesAtError' = HandlesNow
            /\ UNCHANGED << lastDropped, heard, textVars, codecVars >>
            /\ act' = "StartFailed"

(* getUserMedia resolves: the stream is stored and ai.live.connect is      *)
(* called; startSession suspends in `await sessionPromise`.                *)
MicGranted(i) ==
    /\ startPc[i] = "awaitMic"
    /\ stream' = [stream EXCEPT ![i] = "live"]
    /\ streamRef' = i
    /\ transport' = [transport EXCEPT ![i] = "handshake"]
    /\ sessionPromiseRef' = i
    /\ startPc' = [startPc EXCEPT ![i] = "awaitOpen"]
    /\ NoStopHist
    /\ UNCHANGED << reactVars, inputContextRef, outputContextRef, processorRef,
                    nextStart, sourcesRef, cur, sessionSpeed, ictx, octx, clock,
                    proc, procCtx, thenQ, pending, frames, captures, sent >>
    /\ UNCHANGED << handlesAtError, lastDropped, heard, textVars, codecVars >>
    /\ act' = "MicGranted"

(* getUserMedia rejects: the catch block of startSession.                  *)
MicDenied(i) ==
    /\ startPc[i] = "awaitMic"
    /\ startPc' = [startPc EXCEPT ![i] = "done"]
    /\ errorMessage' = "Permission denied"
    /\ StopSessionFrom(transport)
    /\ StopHist(i)
    /\ UNCHANGED << speakerState, playbackSpeed, mounted, refVars, nextStart,
                    cur, sessionSpeed, clock, procCtx, pending, frames,
                    captures, sent >>
    /\ handlesAtError' = HandlesNow
    /\ UNCHANGED << lastDropped, heard, textVars, codecVars >>
    /\ act' = "MicDenied"

(* setupAudioInput: no-op without an input context, else wires a           *)
(* processor on inputContextRef.current.                                   *)
SetupAudioInput(i) ==
    IF inputContextRef = 0
    THEN UNCHANGED << proc, procCtx, processorRef >>
    ELSE /\ proc' = [proc EXCEPT ![i] = "wired"]
         /\ procCtx' = [procCtx EXCEPT ![i] = inputContextRef]
         /\ processorRef' = i

(* The Transport reports open: onopen runs, then the connect promise       *)
(* resolves, which ends startSession and runs the queued callbacks in      *)
(* order: the sends transmit, a close closes the socket.                   *)
OnOpen(i) ==
    /\ transport[i] = "handshake"
    /\ status' = "connected"
    /\ isActive' = TRUE
    /\ speakerState' = "listening"
    /\ SetupAudioInput(i)
    /\ startPc' = [startPc EXCEPT ![i] = "done"]
    /\ sent' = sent + thenQ[i].sends
    /\ transport' = [transport EXCEPT ![i] = IF thenQ[i].close THEN "closing" ELSE "open"]
    /\ thenQ' = [thenQ EXCEPT ![i] = [sends |-> 0, close |-> FALSE]]
    /\ NoStopHist
    /\ UNCHANGED << errorMessage, playbackSpeed, mounted, inputContextRef,
                    outputContextRef, streamRef, sessionPromiseRef, nextStart,
                    sourcesRef, cur, sessionSpeed, ictx, octx, clock, stream,
                    pending, frames, captures >>
    /\ UNCHANGED << handlesAtError, lastDropped, heard, textVars, codecVars >>
    /\ act' = "OnOpen"

(* onclose: after the peer closed an open socket (clean close) or after    *)
(* the close this side asked for completed.                                *)
OnCloseHandler ==
    /\ status' = "disconnected"
    /\ isActive' = FALSE

OnClose(i) ==
    /\ transport[i] \in {"open", "closing"}
    /\ transport' = [transport EXCEPT ![i] = "closed"]
    /\ OnCloseHandler
    /\ NoStopHist
    /\ UNCHANGED << speakerState, errorMessage, playbackSpeed, mounted, refVars,
                    nextStart, sourcesRef, cur, startPc, sessionSpeed, devVars,
                    clock, thenQ, pending, frames, captures, sent >>
    /\ UNCHANGED << handlesAtError, lastDropped, heard, textVars, codecVars >>
    /\ act' = IF transport[i] = "open" THEN "ServerClose" ELSE "OnClose"

(* onerror: the socket failed during the handshake or while open; a        *)
(* failed handshake never resolves the connect promise.                    *)
OnError(i) ==
    /\ transport[i] \in {"handshake", "open"}
    /\ errorMessage' = "Connection error."
    /\ StopSessionFrom([transport EXCEPT ![i] = "closing"])
    /\ StopHist(i)
    /\ UNCHANGED << speakerState, playbackSpeed, mounted, refVars, nextStart,
                    cur, startPc, sessionSpeed, clock, procCtx, pending, frames,
                    captures, sent >>
    /\ handlesAtError' = HandlesNow
    /\ UNCHANGED << lastDropped, heard, textVars, codecVars >>
    /\ act' = "OnError"

(* The End Session button, shown while isActive.                           *)
StopClick ==
    /\ mounted /\ isActive
    /\ StopSessionFrom(transport)
    /\ StopHist(0)
    /\ UNCHANGED << speakerState, errorMessage, playbackSpeed, mounted, refVars,
                    nextStart, cur, startPc, sessionSpeed, clock, procCtx,
                    pending, frames, captures, sent >>
    /\ UNCHANGED << handlesAtError, lastDropped, heard, textVars, codecVars >>
    /\ act' = "StopClick"

(* The cleanup of the mount effect.                                        *)
Unmount ==
    /\ mounted
    /\ mounted' = FALSE
    /\ StopSessionFrom(transport)
    /\ StopHist(0)
    /\ UNCHANGED << speakerState, errorMessage, playbackSpeed, refVars,
                    nextStart, cur, startPc, sessionSpeed, clock, procCtx,
                    pending, frames, captures, sent >>
    /\ UNCHANGED << handlesAtError, lastDropped, heard, textVars, codecVars >>
    /\ act' = "Unmount"

(* ---------------- playback scheduler ---------------- *)

(* The cursor after the arrival check, had it always taken the clock.      *)
CursorAlwaysNow(ns, now) == now

(* The arrival check, had it added a lead of one tick on an underrun.      *)
CursorWithLead(ns, now) == IF ns < now THEN now + 1 ELSE ns

(* if (nextStartTimeRef.current < currentTime) nextStartTimeRef.current = currentTime *)
CursorAtArrival(ns, now) == IF ns < now THEN now ELSE ns

(* The interrupted branch, had it reset the cursor to zero.                *)
InterruptCursorZero(ns, ref) == 0

(* if (outputContextRef.current) nextStartTimeRef.current = outputContextRef.current.currentTime *)
InterruptCursor(ns, ref) == IF ref # 0 THEN clock[ref] ELSE ns

(* audioBuffer.duration / playbackSpeed, in ticks *)
Advance(dur, speed) == (10 * dur) \div speed

(* A source is playing when its start time has come, audio is left in it   *)
(* and its context is running.                                             *)
Playing(s) == octx[s.ctx] = "open" /\ s.begin <= clock[s.ctx] /\ s.left > 0

(* ---------------- transcripts and the history store ---------------- *)

(* Text is a sequence of characters; " " stands for any white space.       *)
RECURSIVE trimStart(_)
trimStart(s) ==
    IF s # << >> /\ Head(s) = " " THEN trimStart(Tail(s)) ELSE s

RECURSIVE trimEnd(_)
trimEnd(s) ==
    IF s # << >> /\ s[Len(s)] = " " THEN trimEnd(SubSeq(s, 1, Len(s) - 1)) ELSE s

trim(s) == trimEnd(trimStart(s))

toLowerCase(s) == [k \in 1..Len(s) |-> IF s[k] = "A" THEN "a" ELSE s[k]]

HistoryCap == 50

(* saveToCache on the stored list h; id stands for Date.now().             *)
saveToCache(h, id, tool, query, result) ==
    LET newItem  == [id |-> id, tool |-> tool, query |-> trim(query), result |-> result]
        filtered == SelectSeq(h, LAMBDA item :
                        toLowerCase(item.query) # toLowerCase(trim(query)))
        updated  == << newItem >> \o filtered
    IN  SubSeq(updated, 1, Min(HistoryCap, Len(updated)))

(* The turnComplete test, had it looked at the user's text only.           *)
FlushDueUserOnly(t) == trim(t.user) # << >>

(* if (transcriptRef.current.user.trim() || transcriptRef.current.model.trim()) *)
FlushDue(t) == trim(t.user) # << >> \/ trim(t.model) # << >>

(* The transcript part of onmessage: the texts are appended, and on        *)
(* turnComplete the pair is saved if due and the buffers are emptied.      *)
TranscriptTail(m) ==
    LET t == [user  |-> transcriptRef.user \o m.inT,
              model |-> transcriptRef.model \o m.outT]
    IN  /\ turn' = [tc |-> m.tc, pair |-> IF m.tc THEN t ELSE EmptyPair]
        /\ IF m.tc
           THEN /\ transcriptRef' = EmptyPair
                /\ IF FlushDue(t)
                   THEN /\ history' = saveToCache(history, saves + 1, "LIVE", t.user, t.model)
                        /\ saves' = saves + 1
                   ELSE UNCHANGED << history, saves >>
           ELSE /\ transcriptRef' = t
                /\ UNCHANGED << history, saves >>

(* The rest of onmessage after the audio part.  srcs, ns and pend are the  *)
(* scheduled set, the cursor and the suspended handlers the audio part     *)
(* left; a flush is noted on the handlers it overtakes.                    *)
MessageTail(m, srcs, ns, pend) ==
    /\ TranscriptTail(m)
    /\ IF m.intr
       THEN /\ sourcesRef' = {}
            /\ nextStart' = InterruptCursor(ns, outputContextRef)
            /\ speakerState' = "listening"
            /\ lastFlush' = [n |-> Cardinality(srcs), old |-> ns]
            /\ pending' = {[q EXCEPT !.overlap = TRUE] : q \in pend}
       ELSE /\ sourcesRef' = srcs
            /\ nextStart' = ns
            /\ lastFlush' = lastFlush
            /\ pending' = pend

(* onmessage up to `await decodeAudioData` for a message with audio, the   *)
(* whole handler for a message without.  The handler is the closure of     *)
(* session i; the refs it reads are the component's.                       *)
OnMessage(i, m) ==
    /\ transport[i] = "open"
    /\ frames < MaxFrames
    /\ frames' = frames + 1
    /\ IF m.audio # "none" /\ outputContextRef # 0
       THEN LET now == clock[outputContextRef] IN
            /\ Cardinality(pending) < MaxPending
            /\ speakerState' = "speaking"
            /\ nextStart' = CursorAtArrival(nextStart, now)
            /\ pending' = pending \cup
                 {[n |-> frames + 1, sess |-> i, ctx |-> outputContextRef,
                   dur |-> m.dur, good |-> (m.audio = "ok"),
                   intr |-> m.intr, tc |-> m.tc, inT |-> m.inT, outT |-> m.outT,
                   arrNow |-> now, underrun |-> (nextStart < now),
                   cursor |-> CursorAtArrival(nextStart, now), overlap |-> FALSE,
                   first |-> (i \notin heard), afterStop |-> stopAccepted]}
            /\ heard' = heard \cup {i}
            /\ UNCHANGED << sourcesRef, lastFlush, textVars >>
            /\ act' = "FrameArrived"
       ELSE /\ MessageTail(m, sourcesRef, nextStart, pending)
            /\ IF m.intr THEN TRUE ELSE speakerState' = speakerState
            /\ heard' = heard
            /\ act' = IF m.intr THEN "Interrupted"
                      ELSE IF m.tc THEN "TurnComplete" ELSE "Transcript"
    /\ stops' = 0 /\ stopLog' = << >>
    /\ UNCHANGED << status, isActive, errorMessage, playbackSpeed, mounted,
                    refVars, cur, startPc, sessionSpeed, devVars, clock,
                    transport, thenQ, captures, sent, stopAccepted, cancelled,
                    handlesAtError, lastDropped, codecVars >>

(* source.start(nextStartTimeRef.current), had the cursor been read before *)
(* the await.                                                              *)
StartTimeAtArrival(p, ns) == p.cursor

(* source.start(nextStartTimeRef.current): the cursor as it stands when    *)
(* the handler resumes.                                                    *)
StartTime(p, ns) == ns

(* The cursor after the try block, had the advance been made outside it.   *)
CursorAfterDecodeAlways(good, ns, adv) == ns + adv

(* nextStartTimeRef.current += audioBuffer.duration / playbackSpeed, the   *)
(* last but one statement of the try block: skipped when the decode threw. *)
CursorAfterDecode(good, ns, adv) == IF good THEN ns + adv ELSE ns

(* The decode settles and the handler resumes: on success the source is    *)
(* created on the context read at arrival, started at the cursor and       *)
(* added to sourcesRef; on failure the catch logs.  Then the tail.         *)
DecodeDone(p) ==
    /\ p \in pending
    /\ LET rate == sessionSpeed[p.sess]
           at  == StartTime(p, nextStart)
           src == [n |-> p.n, ctx |-> p.ctx, when |-> at,
                   begin |-> Max(at, clock[p.ctx]),
                   left |-> 10 * p.dur, rate |-> rate,
                   arrNow |-> p.arrNow, underrun |-> p.underrun,
                   overlap |-> p.overlap, afterStop |-> p.afterStop]
           srcs == IF p.good THEN sourcesRef \cup {src} ELSE sourcesRef
           ns == CursorAfterDecode(p.good, nextStart, Advance(p.dur, rate))
       IN  /\ MessageTail(p, srcs, ns, pending \ {p})
           /\ IF p.intr THEN TRUE ELSE speakerState' = speakerState
    /\ lastDropped' = IF p.good THEN lastDropped ELSE p.n
    /\ act' = IF p.intr THEN "Interrupted"
              ELSE IF p.good THEN "FrameScheduled" ELSE "FrameDropped"
    /\ stops' = 0 /\ stopLog' = << >>
    /\ UNCHANGED << status, isActive, errorMessage, playbackSpeed, mounted,
                    refVars, cur, startPc, sessionSpeed, devVars, clock,
                    transport, thenQ, frames, captures, sent, stopAccepted,
                    cancelled, handlesAtError, heard, codecVars >>

(* The 'ended' listener of a source whose buffer has played out.           *)
Ended(s) ==
    /\ s \in sourcesRef
    /\ s.left <= 0
    /\ speakerState' = IF clock[s.ctx] >= nextStart - EndedSlack
                       THEN "listening" ELSE speakerState
    /\ sourcesRef' = sourcesRef \ {s}
    /\ NoStopHist
    /\ UNCHANGED << status, isActive, errorMessage, playbackSpeed, mounted,
                    refVars, nextStart, cur, startPc, sessionSpeed, devVars,
                    clock, transport, thenQ, pending, frames, captures, sent >>
    /\ UNCHANGED << handlesAtError, lastDropped, heard, textVars, codecVars >>
    /\ act' = "Ended"

(* The playbackSpeed effect: every source in sourcesRef takes the new rate *)
SetSpeed(v) ==
    /\ mounted /\ status = "connected"
    /\ v # playbackSpeed
    /\ playbackSpeed' = v
    /\ sourcesRef' = {[s EXCEPT !.rate = v] : s \in sourcesRef}
    /\ NoStopHist
    /\ UNCHANGED << status, isActive, speakerState, errorMessage, mounted,
                    refVars, nextStart, cur, startPc, sessionSpeed, devVars,
                    clock, transport, thenQ, pending, frames, captures, sent >>
    /\ UNCHANGED << handlesAtError, lastDropped, heard, textVars, codecVars >>
    /\ act' = "SetSpeed"

(* 100 ms pass: every running output context advances, and every playing   *)
(* source plays `rate` tenths of a tick of its buffer.                     *)
Tick ==
    /\ \E i \in Sessions : octx[i] = "open"
    /\ \A i \in Sessions : octx[i] = "open" => clock[i] < MaxTime
    /\ clock' = [i \in Sessions |-> IF octx[i] = "open" THEN clock[i] + 1 ELSE clock[i]]
    /\ sourcesRef' = {IF Playing(s) THEN [s EXCEPT !.left = s.left - s.rate] ELSE s
                      : s \in sourcesRef}
    /\ NoStopHist
    /\ UNCHANGED << reactVars, refVars, nextStart, cur, startPc, sessionSpeed,
                    devVars, transport, thenQ, pending, frames, captures, sent >>
    /\ UNCHANGED << handlesAtError, lastDropped, heard, textVars, codecVars >>
    /\ act' = "Tick"

(* ---------------- capture ---------------- *)

(* The rejection handler of the send, had it reported the failure.         *)
SendRejectedReported(st) == "error"

(* .catch(() => {}): a send that fails leaves the status as it is.         *)
SendRejected(st) == st

(* The Transport behind the promise j cannot take a chunk: the socket is   *)
(* closing or closed, or a close is queued ahead on the pending promise.   *)
Unsendable(j) ==
    \/ j = 0
    \/ transport[j] \in {"closing", "closed"}
    \/ transport[j] = "handshake" /\ thenQ[j].close

(* processor.onaudioprocess of session p: the block is encoded and handed  *)
(* to sessionPromiseRef.current?.then(send).catch(): sent at once on an    *)
(* open socket, queued on a pending promise, dropped otherwise.            *)
Capture(p) ==
    /\ proc[p] = "wired" /\ ictx[procCtx[p]] = "open" /\ stream[p] = "live"
    /\ captures < MaxCaptures
    /\ captures' = captures + 1
    /\ LET j == sessionPromiseRef IN
       /\ sent' = IF j # 0 /\ transport[j] = "open" THEN sent + 1 ELSE sent
       /\ thenQ' = IF j # 0 /\ transport[j] = "handshake" /\ ~thenQ[j].close
                   THEN [thenQ EXCEPT ![j].sends = @ + 1] ELSE thenQ
       /\ status' = IF j # 0 /\ Unsendable(j) THEN SendRejected(status) ELSE status
    /\ NoStopHist
    /\ UNCHANGED << isActive, speakerState, errorMessage, playbackSpeed, mounted,
                    refVars, nextStart, sourcesRef, cur, startPc,
                    sessionSpeed, devVars, clock, transport, pending, frames >>
    /\ UNCHANGED << handlesAtError, lastDropped, heard, textVars, codecVars >>
    /\ act' = "Capture"

(* ---------------- the PCM codec ---------------- *)

(* A float sample x is kept as the integer x * Scale * SubSteps.           *)
Scale == 32768
One   == Scale * SubSteps

Samples ==
    {k - One : k \in 0..MaxSpan} \cup (-MaxSpan..MaxSpan) \cup {One - k : k \in 0..MaxSpan}

(* The store of a number into an Int16Array element: the fraction is       *)
(* dropped (towards zero) and the integer is taken modulo 2^16 into       *)
(* -32768 .. 32767.  num / SubSteps is the number.                         *)
ToInt16(num) ==
    LET n == IF num >= 0 THEN num \div SubSteps ELSE -((-num) \div SubSteps)
    IN  ((n + 32768) % 65536) - 32768

(* new Uint8Array(int16.buffer): the two bytes of an element, low first.   *)
BytesOf(i16) ==
    LET u == i16 % 65536 IN << u % 256, u \div 256 >>

(* new Int16Array(data.buffer): the element two bytes make.                *)
Int16Of(bytes) ==
    LET u == bytes[1] + 256 * bytes[2] IN IF u >= 32768 THEN u - 65536 ELSE u

(* btoa of two bytes: three 6-bit digits (and one pad).                    *)
encode(bytes) ==
    << bytes[1] \div 4, (bytes[1] % 4) * 16 + bytes[2] \div 16, (bytes[2] % 16) * 4 >>

(* atob of those digits.                                                   *)
decode(b64) ==
    << b64[1] * 4 + b64[2] \div 16, (b64[2] % 16) * 16 + b64[3] \div 4 >>

(* createBlob for one sample: int16[i] = data[i] * 32768, then encode.     *)
CreateBlob ==
    /\ codecPc = "sampled"
    /\ pcmBlob' = encode(BytesOf(ToInt16(sample)))
    /\ codecPc' = "encoded"
    /\ UNCHANGED << sample, decoded >>

(* decode, then decodeAudioData: channelData[i] = dataInt16[i] / 32768.0   *)
DecodeAudioData ==
    /\ codecPc = "encoded"
    /\ decoded' = Int16Of(decode(pcmBlob)) * SubSteps
    /\ codecPc' = "decoded"
    /\ UNCHANGED << sample, pcmBlob >>

(* Inbound messages with audio or an interruption and no text; a message  *)
(* that carries nothing is left out.                                       *)
AudioMessages ==
    {m \in [audio : {"none", "ok", "bad"}, dur : Durs, intr : BOOLEAN,
            tc : {FALSE}, inT : {<< >>}, outT : {<< >>}] :
        m.audio # "none" \/ m.intr}

(* Inbound messages with text, turnComplete or an interruption and no     *)
(* audio, and messages whose audio does not decode, with no text.          *)
Texts == {<< >>, << " " >>, << "a" >>}

TextMessages ==
    {m \in [audio : {"none"}, dur : Durs, intr : BOOLEAN,
            tc : BOOLEAN, inT : Texts, outT : Texts] :
        m.intr \/ m.tc \/ m.inT # << >> \/ m.outT # << >>}
    \cup [audio : {"bad"}, dur : Durs, intr : {FALSE}, tc : BOOLEAN,
          inT : {<< >>}, outT : {<< >>}]

(* The session life cycle: start requests, the Transport events, stops.    *)
Next ==
    \/ \E k, m \in BOOLEAN : StartClick(k, m)
    \/ \E i \in Sessions : MicGranted(i)
    \/ \E i \in Sessions : MicDenied(i)
    \/ \E i \in Sessions : OnOpen(i)
    \/ \E i \in Sessions : OnClose(i)
    \/ \E i \in Sessions : OnError(i)
    \/ StopClick
    \/ Unmount

Spec == Init /\ [][Next]_vars

(* The life cycle with its inbound messages and the capture callback, at   *)
(* a frozen output clock.                                                  *)
NextMedia ==
    \/ Next
    \/ \E i \in Sessions, m \in AudioMessages : OnMessage(i, m)
    \/ \E p \in pending : DecodeDone(p)
    \/ \E p \in Sessions : Capture(p)

SpecMedia == Init /\ [][NextMedia]_vars

(* The life cycle with the capture callback.                               *)
NextCapture ==
    \/ Next
    \/ \E p \in Sessions : Capture(p)

SpecCapture == Init /\ [][NextCapture]_vars

(* One session that connects and plays, with time passing.                 *)
NextPlay ==
    \/ StartClick(TRUE, TRUE)
    \/ \E i \in Sessions : MicGranted(i)
    \/ \E i \in Sessions : OnOpen(i)
    \/ \E i \in Sessions, m \in AudioMessages : OnMessage(i, m)
    \/ \E p \in pending : DecodeDone(p)
    \/ \E s \in sourcesRef : Ended(s)
    \/ \E v \in Speeds : SetSpeed(v)
    \/ Tick

SpecPlay == Init /\ [][NextPlay]_vars

(* One connected session and its transcript messages.                      *)
NextText ==
    \/ StartClick(TRUE, TRUE)
    \/ \E i \in Sessions : MicGranted(i)
    \/ \E i \in Sessions : OnOpen(i)
    \/ \E i \in Sessions, m \in TextMessages : OnMessage(i, m)
    \/ \E p \in pending : DecodeDone(p)

SpecText == Init /\ [][NextText]_vars

(* The codec applied to one sample of [-1, 1].                             *)
CodecInit ==
    /\ SessionInit
    /\ sample \in Samples /\ pcmBlob = << >> /\ decoded = 0 /\ codecPc = "sampled"

NextCodec ==
    \/ CreateBlob /\ UNCHANGED << reactVars, refVars, devVars, histVars, textVars,
                                  nextStart, sourcesRef, cur, startPc, sessionSpeed,
                                  clock, transport, thenQ, pending, frames, captures,
                                  sent, handlesAtError, lastDropped, heard, act >>
    \/ DecodeAudioData /\ UNCHANGED << reactVars, refVars, devVars, histVars, textVars,
                                  nextStart, sourcesRef, cur, startPc, sessionSpeed,
                                  clock, transport, thenQ, pending, frames, captures,
                                  sent, handlesAtError, lastDropped, heard, act >>

SpecCodec == CodecInit /\ [][NextCodec]_vars

(* ---------------- properties ---------------- *)

Released(i) ==
    /\ ictx[i] # "open" /\ octx[i] # "open"
    /\ stream[i] # "live" /\ proc[i] # "wired"

HasOpenHandle(i) ==
    \/ ictx[i] = "open" \/ octx[i] = "open" \/ stream[i] = "live"
    \/ transport[i] \in {"handshake", "open"}

(* C1: no two buffers of the scheduled set play at the same instant of     *)
(* the output clock.                                                       *)
C1_NoOverlap ==
    \A a, b \in sourcesRef : (a # b /\ a.ctx = b.ctx) => ~(Playing(a) /\ Playing(b))

(* C2: apart from the handling of an Interrupted event, no step makes      *)
(* nextStart smaller.                                                      *)
C2_CursorMonotone == [][act' # "Interrupted" => nextStart' >= nextStart]_vars

C2_Witness ==
    /\ act = "FrameScheduled"
    /\ \E a, b \in sourcesRef : a.underrun /\ ~b.underrun /\ b.when > a.when
    /\ nextStart > clock[outputContextRef]

C4_InterruptResets ==
    [][act' = "Interrupted" =>
         /\ sourcesRef' = {}
         /\ outputContextRef' # 0
         /\ nextStart' = clock'[outputContextRef']]_vars

C4_Witness ==
    /\ act = "Interrupted"
    /\ lastFlush.n > 0
    /\ lastFlush.old > nextStart
    /\ nextStart > 0

(* C5: while the component shows status Disconnected, every device handle  *)
(* of every session is released.                                           *)
C5_DisconnectedReleased ==
    (mounted /\ status = "disconnected") => \A i \in Sessions : Released(i)

(* C6: a connection attempt that was stopped while Connecting and resolved *)
(* afterwards is ignored: status is not set to Connected, capture is not   *)
(* wired, and none of its handles is open.                                 *)
C6_CancelledAttemptIgnored ==
    \A i \in cancelled :
        startPc[i] = "done" =>
            /\ ~HasOpenHandle(i)
            /\ proc[i] # "wired"
            /\ ~(act = "OnOpen" /\ status = "connected")

(* C7: after two stopSession calls in a row the status is Disconnected and *)
(* no device handle and no Transport is open.                              *)
C7_StopTwice ==
    stops = 2 =>
        /\ status = "disconnected"
        /\ \A i \in Sessions : Released(i) /\ transport[i] # "open"

(* C8: no frame delivered after a stop was accepted (and before the next   *)
(* start request) is in the scheduled set.                                 *)
C8_NoPlaybackAfterStop == \A s \in sourcesRef : ~s.afterStop

(* C9: between an accepted stop and the next start request no capture      *)
(* callback runs and no chunk is sent on a Transport.                      *)
C9_NoCaptureAfterStop ==
    [][(stopAccepted /\ stopAccepted') => (captures' = captures /\ sent' = sent)]_vars

(* C10: at most one session holds an open handle.                          *)
C10_OneSession == Cardinality({i \in Sessions : HasOpenHandle(i)}) <= 1

(* C11: a start that failed to acquire the key, the microphone or the      *)
(* Transport leaves status Error; the teardown it triggers does not        *)
(* replace Error by Disconnected.                                          *)
C11_FailureLeavesError ==
    act \in {"StartFailed", "MicDenied", "OnError"} => status = "error"

(* C12: on every fatal error the teardown is complete before Error is      *)
(* reported: no handle is open when the error state is set, and none is    *)
(* open after the error's handler.                                         *)
C12_TeardownBeforeError ==
    /\ handlesAtError # "open"
    /\ act \in {"StartFailed", "MicDenied", "OnError"} =>
           \A i \in Sessions : ~HasOpenHandle(i) /\ proc[i] # "wired"

(* C13: the step in which the decode of an inbound chunk fails adds no     *)
(* buffer to the scheduled set, leaves the cursor, the status, the error   *)
(* message and the Transport as they were, so that later frames are still  *)
(* delivered and scheduled.                                                *)
C13_DecodeFailureAbsorbed ==
    [][act' = "FrameDropped" =>
         /\ sourcesRef' = sourcesRef
         /\ nextStart' = nextStart
         /\ status' = status /\ isActive' = isActive
         /\ errorMessage' = errorMessage
         /\ transport' = transport]_vars

C13_Witness ==
    /\ act = "FrameScheduled"
    /\ status = "connected"
    /\ lastDropped > 0
    /\ \E s \in sourcesRef : s.n > lastDropped

C15_ArrivalOrder ==
    \A a, b \in sourcesRef : a.n < b.n => a.when < b.when

(* C16: a frame whose handling an Interrupted event overtook (it arrived   *)
(* before the flush and is scheduled after it) is started at the cursor    *)
(* as the flush and the handlers since left it, not at a value read        *)
(* before the flush.                                                       *)
C16_NoStaleCursor ==
    [][act' = "FrameScheduled" =>
         \A s \in sourcesRef' \ sourcesRef : s.overlap => s.when = nextStart]_vars

C16_Witness ==
    /\ act = "FrameScheduled"
    /\ \E s \in sourcesRef :
          /\ s.overlap
          /\ s.when < lastFlush.old
          /\ s.when >= s.arrNow

(* A step in which the part of onmessage after the audio ran: a message    *)
(* without audio was handled, or a suspended handler resumed.              *)
TailRan ==
    \/ frames' # frames /\ Cardinality(pending') = Cardinality(pending)
    \/ frames' = frames /\ Cardinality(pending') < Cardinality(pending)

Blank(s) == \A k \in 1..Len(s) : s[k] = " "

C18_InterruptFlushes ==
    act = "Interrupted" => transcriptRef = EmptyPair

(* C20: for every sample of [-1, 1], the end points included, the sample   *)
(* decoded from its encoding is within 1/32768 of it.                      *)
C20_RoundTrip ==
    codecPc = "decoded" =>
        /\ sample - decoded <= SubSteps
        /\ decoded - sample <= SubSteps

(* C21: the status of the mounted component becomes Connected only in the *)
(* onopen of the Transport, and only from Connecting: never from           *)
(* Disconnected or Error.                                                  *)
C21_ConnectedOnlyFromConnecting ==
    [][(mounted /\ status' = "connected" /\ status # "connected") =>
         (act' = "OnOpen" /\ status = "connecting")]_vars

(* The place of a statement in the order the teardown is to follow.        *)
StepRank(x) ==
    CASE x = "processor.disconnect"   -> 1
      [] x = "inputSource.disconnect" -> 2
      [] x = "tracks.stop"            -> 3
      [] x = "inputContext.close"     -> 4
      [] x = "sources.stop"           -> 5
      [] x = "sources.clear"          -> 6
      [] x = "outputContext.close"    -> 7
      [] x = "session.close"          -> 8
      [] x = "setIsActive"            -> 9
      [] x = "setStatus"              -> 10

EndsAt(a, t) == (t - Max(a.begin, clock[a.ctx])) * a.rate = a.left

(* C23: a frame that arrived without underrun (nextStart >= now) is        *)
(* started exactly where a buffer scheduled before it ends, so that        *)
(* back-to-back frames play as one block with no gap and no overlap.       *)
C23_Gapless ==
    [][act' = "FrameScheduled" =>
         \A b \in sourcesRef' \ sourcesRef :
             (~b.underrun /\ sourcesRef # {}) =>
                 \E a \in sourcesRef : EndsAt(a, b.when)]_vars

(* C24: a chunk captured while the connect promise is pending is dropped:  *)
(* it is not kept on any queue, and nothing captured earlier is sent when  *)
(* the Transport opens.                                                    *)
C24_NoRetryQueue ==
    [][/\ (act' = "Capture" /\ sessionPromiseRef # 0
               /\ transport[sessionPromiseRef] = "handshake")
            => (thenQ' = thenQ /\ sent' = sent)
       /\ act' = "OnOpen" => sent' = sent]_vars

(* C25: the history only grows: every item stored before a step is still   *)
(* stored after it.                                                        *)
C25_HistoryAppendOnly ==
    [][\A k \in 1..Len(history) :
           \E j \in 1..Len(history') : history'[j] = history[k]]_vars

(* C26: the first audio frame of every session leaves its arrival check    *)
(* with the cursor at the output clock's time at arrival, not at a value   *)
(* an earlier session left in nextStart.                                   *)
C26_CursorNotCarriedOver ==
    \A p \in pending : p.first => p.cursor = p.arrNow

(* C27: the scheduled set holds no buffer of a frame that arrived before   *)
(* an Interrupted event and was decoded after the event was handled.       *)
C27_NoFrameFromBeforeInterrupt ==
    \A s \in sourcesRef : ~s.overlap

(* C28: no buffer is started in the past: when source.start(nextStart) is  *)
(* called, nextStart is at or after the output clock's current time.       *)
C28_StartNotInPast ==
    \A s \in sourcesRef : s.begin = s.when

(* C29: speakerState does not stay 'speaking' without audio: once no frame *)
(* is being decoded and no buffer is scheduled (every scheduled buffer has *)
(* ended, or the only inbound frame was dropped as malformed), only a new  *)
(* message can change speakerState, so in such a state it must already be  *)
(* 'listening'.                                                            *)
C29_SpeakingEnds ==
    (status = "connected" /\ pending = {} /\ sourcesRef = {}) =>
        speakerState = "listening"

(***************************************************************************)
(* The history store of src/services/cache.ts on its own: SpecCache calls  *)
(* saveToCache and clearHistory with arbitrary tools, queries and results. *)
(* localStorage is taken to accept every write.                            *)
(***************************************************************************)
CacheTools   == {"BIBLE", "BIO", "LIVE"}
CacheQueries == {<< "a" >>, << " ", "A" >>, << "b" >>}
CacheResults == {"r1", "r2"}
Null         == "null"

(* checkCache on the stored list h: the result of the first item of that   *)
(* tool whose query equals the trimmed query up to letter case, else null. *)
checkCache(h, tool, query) ==
    LET hits == SelectSeq(h, LAMBDA item :
                    /\ item.tool = tool
                    /\ toLowerCase(item.query) = toLowerCase(trim(query)))
    IN  IF hits # << >> THEN hits[1].result ELSE Null

cacheRest == << reactVars, refVars, devVars, histVars, codecVars, transcriptRef,
                turn, nextStart, sourcesRef, cur, startPc, sessionSpeed, clock,
                transport, thenQ, pending, frames, captures, sent,
                handlesAtError, lastDropped, heard >>

SaveToCache(tool, query, result) ==
    /\ saves < MaxSaves
    /\ history' = saveToCache(history, saves + 1, tool, query, result)
    /\ saves' = saves + 1
    /\ act' = "saveToCache"
    /\ UNCHANGED cacheRest

clearHistory ==
    /\ history' = << >>
    /\ act' = "clearHistory"
    /\ UNCHANGED << saves, cacheRest >>

NextCache ==
    \/ \E tool \in CacheTools, query \in CacheQueries, result \in CacheResults :
           SaveToCache(tool, query, result)
    \/ clearHistory

SpecCache == Init /\ [][NextCache]_vars

SameQuery(q1, q2) == toLowerCase(trim(q1)) = toLowerCase(trim(q2))

(* C30: cache round trip.  Right after saveToCache(tool, q, r) a lookup of *)
(* tool under any query equal to q up to letter case and surrounding       *)
(* whitespace returns r; and a save made under a different tool, with no   *)
(* eviction by the 50-item limit, leaves every successful lookup of the    *)
(* other tools as it was.                                                  *)
C30_CacheRoundTrip ==
    [][act' = "saveToCache" =>
         LET new == history'[1]
         IN  /\ \A q \in CacheQueries :
                    SameQuery(q, new.query) => checkCache(history', new.tool, q) = new.result
             /\ \A tool \in CacheTools \ {new.tool}, q \in CacheQueries :
                    (checkCache(history, tool, q) # Null /\ Len(history) < HistoryCap)
                        => checkCache(history', tool, q) = checkCache(history, tool, q)]_vars

====
